---- MODULE Spec2Model ----
(***************************************************************************)
(* A model of the TFTP client of src/server.py: one process run performs   *)
(* one operation, get_file (download) or put_file (upload), over a UDP     *)
(* socket with a receive timeout.  Packets are byte sequences, encoded and *)
(* decoded as struct.pack / int.from_bytes do.  The peer and the network   *)
(* are the environment: at every receive wait they deliver one packet from *)
(* a bounded set, from one of the peer addresses, or let the wait time out.*)
(***************************************************************************)
EXTENDS Integers, Sequences, FiniteSets, TLC

\* ------------------------------------------------------------ bounds
\* Remote / local files have up to MaxBlocks full blocks.
MaxBlocks == 2
\* Block numbers carried by the packets the environment delivers: 0..MaxBlockNo.
MaxBlockNo == 3
\* ERROR codes the environment delivers: 0..MaxErrorCode (8 and above are undefined).
MaxErrorCode == 8

\* ------------------------------------------------- program constants
BLOCK_SIZE == 512
RECV_BUFSIZE == 516
\* the largest number struct's 'h' format packs
INT16_MAX == 32767
OP_RRQ == 1
OP_WRQ == 2
OP_DATA == 3
OP_ACK == 4
OP_ERROR == 5

\* DEFAULT_TRANSFER_MODE = 'octet', as bytes
DEFAULT_TRANSFER_MODE == <<111, 99, 116, 101, 116>>

\* ERROR_CODE: the catalogue of the 8 defined codes
ERROR_CODE ==
  [c \in 0..7 |->
     CASE c = 0 -> "Not defined, see error message (if any)."
       [] c = 1 -> "File not found."
       [] c = 2 -> "Access violation."
       [] c = 3 -> "Disk full or allocation exceeded."
       [] c = 4 -> "Illegal TFTP operation."
       [] c = 5 -> "Unknown transfer ID."
       [] c = 6 -> "File already exists."
       [] c = 7 -> "No such user."]

\* ------------------------------------------------------ byte helpers
Min(a, b) == IF a < b THEN a ELSE b

\* Python's s[a:b] for 0 <= a <= b
Slice(s, a, b) == SubSeq(s, a + 1, Min(b, Len(s)))

\* Python's s[a:]
SliceFrom(s, a) == SubSeq(s, a + 1, Len(s))

\* int.from_bytes(bs, 'big'): unsigned, any length, 0 for the empty string
RECURSIVE IntFromBytes(_)
IntFromBytes(bs) ==
  IF bs = <<>> THEN 0
  ELSE 256 * IntFromBytes(SubSeq(bs, 1, Len(bs) - 1)) + bs[Len(bs)]

\* struct's 'h' accepts a signed 16-bit value only; anything else raises struct.error
PackOk_h(n) == n >= -32768 /\ n <= 32767

\* pack('>h', n): two's complement, big-endian
Pack_h(n) == <<((n + 65536) % 65536) \div 256, ((n + 65536) % 65536) % 256>>

\* ------------------------------------------------------------- state
VARIABLES
  op,                     \* args.operation
  pc,                     \* "start", "get_recv", "put_recv", "exit"
  disk,                   \* the local file `filename`: [exists, bytes]
  remote,                 \* the file the peer serves in a download
  fileOpen,               \* the handle `file` is open
  filePos,                \* read cursor of `file` in put_file
  sockOpen,               \* `sock` is open
  expected_block_number,  \* get_file
  block_number,           \* put_file
  file_block,             \* put_file: the chunk read in this iteration
  server,                 \* the address returned by the last recvfrom
  sent,                   \* packets sent, in order: [to, data]
  lastRecv,               \* the outcome of the last receive wait
  firstFrom,              \* the source address of the first reply
  exitStatus,             \* -1 while running, else the process's exit status
  error,                  \* what ended the process
  stdout,                 \* lines printed
  skipped                 \* blocks transferred before the part of the run the
                          \* state holds (0 when the run is held from its start)

vars ==
  <<op, pc, disk, remote, fileOpen, filePos, sockOpen, expected_block_number,
    block_number, file_block, server, sent, lastRecv, firstFrom, exitStatus,
    error, stdout, skipped>>

\* ------------------------------------------------------ environment
ServerAddress == "server"
PeerAddrs == {"tid1", "tid2"}
Filename == <<102>>
OldBytes == <<9, 9, 9>>

\* The bytes of a file of n bytes; every block of it differs from the others.
FileBytes(n) == [i \in 1..n |-> ((i - 1) + ((i - 1) \div BLOCK_SIZE)) % 256]

FileSizes ==
  {n \in UNION {{k * BLOCK_SIZE - 1, k * BLOCK_SIZE, k * BLOCK_SIZE + 1} : k \in 0..MaxBlocks} :
     n >= 0 /\ n <= MaxBlocks * BLOCK_SIZE}

\* A transfer of a file of Len(f) bytes has floor(Len/512)+1 blocks.
NumBlocks(f) == (Len(f) \div BLOCK_SIZE) + 1

\* The k-th block (k >= 1) of file f: 512 bytes, or the shorter rest.
Chunk(f, k) == SubSeq(f, (k - 1) * BLOCK_SIZE + 1, Min(k * BLOCK_SIZE, Len(f)))

\* Packets as the peer puts them on the wire (unsigned 16-bit fields).
U16(n) == <<(n % 65536) \div 256, n % 256>>
PeerData(b, payload) == U16(OP_DATA) \o U16(b) \o payload
PeerAck(b) == U16(OP_ACK) \o U16(b)
PeerError(code) == U16(OP_ERROR) \o U16(code) \o <<101, 0>>

BlockNos == {skipped + b : b \in 0..MaxBlockNo}

\* Packets that are neither DATA nor ERROR / neither a well-formed ACK.
OddPackets == {<<>>, <<0>>, U16(9) \o U16(1), U16(OP_RRQ) \o Filename \o <<0>>}

\* The payload of a DATA packet that is no block of the file served.
StrayBytes == <<7>>

\* What may arrive during a download of the file `src`: its blocks, in any
\* order and any number of times; stray short DATA packets with any block
\* number; ERROR packets; packets of other kinds.
GetInbox(src) ==
  {PeerData(skipped + c, Chunk(src, c)) : c \in 1..NumBlocks(src)}
    \cup {PeerData(b, StrayBytes) : b \in BlockNos}
    \cup {PeerError(code) : code \in 0..MaxErrorCode}
    \cup {PeerAck(1)}
    \cup OddPackets

\* What may arrive during an upload.
PutInbox ==
  {PeerAck(b) : b \in BlockNos}
    \cup {PeerError(code) : code \in 0..MaxErrorCode}
    \cup {PeerData(skipped + 1, StrayBytes), U16(OP_ACK)}
    \cup OddPackets

NoRecv == [kind |-> "none", from |-> "nobody", data |-> <<>>]
TimedOut == [kind |-> "timeout", from |-> "nobody", data |-> <<>>]
Packet(from, data) == [kind |-> "packet", from |-> from, data |-> data]

Init ==
  /\ op \in {"get", "put"}
  /\ pc = "start"
  /\ \E n \in FileSizes :
       \/ /\ op = "get"
          /\ remote = FileBytes(n)
          /\ disk \in {[exists |-> FALSE, bytes |-> <<>>],
                       [exists |-> TRUE, bytes |-> OldBytes]}
       \/ /\ op = "put"
          /\ remote = <<>>
          /\ disk \in {[exists |-> FALSE, bytes |-> <<>>],
                       [exists |-> TRUE, bytes |-> FileBytes(n)]}
  /\ fileOpen = FALSE
  /\ filePos = 0
  /\ sockOpen = TRUE
  /\ expected_block_number = 0
  /\ block_number = 0
  /\ file_block = <<>>
  /\ server = ServerAddress
  /\ sent = <<>>
  /\ lastRecv = NoRecv
  /\ firstFrom = "nobody"
  /\ exitStatus = -1
  /\ error = "none"
  /\ stdout = <<>>
  /\ skipped = 0

\* ------------------------------------------------------ packet codec
\* send_rrq: pack('>h{len}sB{len}sB', 1, filename, 0, mode, 0)
RrqMessage(filename, mode) == Pack_h(OP_RRQ) \o filename \o <<0>> \o mode \o <<0>>

\* send_wrq
WrqMessage(filename, mode) == Pack_h(OP_WRQ) \o filename \o <<0>> \o mode \o <<0>>

\* send_ack: pack('>hh', 4, block_num)
AckMessage(block_num) == Pack_h(OP_ACK) \o Pack_h(block_num)

\* put_file: pack('>hh{len}s', 3, block_number + 1, file_block)
DataMessage(num, block) == Pack_h(OP_DATA) \o Pack_h(num) \o block

\* sock.recvfrom(516): at most 516 bytes of the datagram
RecvFrom(pkt) == SubSeq(pkt, 1, Min(RECV_BUFSIZE, Len(pkt)))

Opcode(data) == IntFromBytes(Slice(data, 0, 2))
Field2(data) == IntFromBytes(Slice(data, 2, 4))

Noted(from) == IF firstFrom = "nobody" THEN from ELSE firstFrom

\* os.remove(filename)
OsRemove_Skipped(d) == d

OsRemove(d) == [exists |-> FALSE, bytes |-> <<>>]

\* if block_number == expected_block_number
BlockMatches_Any(blk) == TRUE

\* the comparison written as "not beyond the expected block"
BlockMatches_AtMost(blk) == blk <= expected_block_number

BlockMatches(blk) == blk = expected_block_number

\* if len(file_block) < BLOCK_SIZE
IsLastBlock(block) == Len(block) < BLOCK_SIZE

\* if not os.path.exists(filename)
LocalFileMissing_Unchecked == FALSE

LocalFileMissing == ~disk.exists

\* ------------------------------------------------------- get_file
\* send_rrq, open(filename, 'wb'), expected_block_number = 1
GetStart ==
  /\ op = "get" /\ pc = "start"
  /\ sent' = Append(sent, [to |-> ServerAddress,
                           data |-> RrqMessage(Filename, DEFAULT_TRANSFER_MODE)])
  /\ disk' = [exists |-> TRUE, bytes |-> <<>>]
  /\ fileOpen' = TRUE
  /\ expected_block_number' = 1
  /\ pc' = "get_recv"
  /\ UNCHANGED <<op, remote, filePos, sockOpen, block_number, file_block, server,
                 lastRecv, firstFrom, exitStatus, error, stdout,
                 skipped>>

\* The DATA branch of the loop, for the packet pkt received from `from`.
GetData(pkt, from) ==
  LET data == RecvFrom(pkt)
      blk == Field2(data)
      payload == SliceFrom(data, 4)
      match == BlockMatches(blk)
      last == IsLastBlock(payload)
  IN
  /\ Opcode(data) = OP_DATA
  /\ server' = from
  /\ lastRecv' = Packet(from, data)
  /\ firstFrom' = Noted(from)
  /\ disk' = IF match THEN [disk EXCEPT !.bytes = @ \o payload] ELSE disk
  /\ IF match /\ ~PackOk_h(blk)
     THEN \* send_ack raises struct.error after the write: uncaught
          /\ pc' = "exit" /\ exitStatus' = 1 /\ error' = "struct.error"
          /\ UNCHANGED <<sent, expected_block_number, stdout, fileOpen, sockOpen>>
     ELSE /\ sent' = IF match
                     THEN Append(sent, [to |-> from, data |-> AckMessage(blk)])
                     ELSE sent
          /\ expected_block_number' =
               IF match THEN expected_block_number + 1 ELSE expected_block_number
          /\ IF last
             THEN \* break; file.close(); return; sock.close()
                  /\ stdout' = Append(stdout, "File transfer completed.")
                  /\ fileOpen' = FALSE /\ sockOpen' = FALSE
                  /\ pc' = "exit" /\ exitStatus' = 0 /\ error' = "none"
             ELSE /\ UNCHANGED <<stdout, fileOpen, sockOpen, pc, exitStatus, error>>
  /\ UNCHANGED <<op, remote, filePos, block_number, file_block,
                 skipped>>

GetRecvData ==
  /\ op = "get" /\ pc = "get_recv"
  /\ \E pkt \in GetInbox(remote), from \in PeerAddrs : GetData(pkt, from)

\* The ERROR branch of the loop.
GetError(pkt, from) ==
  LET data == RecvFrom(pkt)
      error_code == Field2(data)
  IN
  /\ Opcode(data) = OP_ERROR
  /\ server' = from
  /\ lastRecv' = Packet(from, data)
  /\ firstFrom' = Noted(from)
  /\ IF error_code \in DOMAIN ERROR_CODE
     THEN \* print; file.close(); os.remove; break; file.close(); return; sock.close()
          /\ stdout' = Append(stdout, "Error " \o ToString(error_code) \o ": "
                                        \o ERROR_CODE[error_code])
          /\ fileOpen' = FALSE
          /\ disk' = OsRemove(disk)
          /\ sockOpen' = FALSE
          /\ pc' = "exit" /\ exitStatus' = 0 /\ error' = "none"
     ELSE \* ERROR_CODE[error_code] raises KeyError: uncaught
          /\ pc' = "exit" /\ exitStatus' = 1 /\ error' = "KeyError"
          /\ UNCHANGED <<stdout, fileOpen, disk, sockOpen>>
  /\ UNCHANGED <<op, remote, filePos, expected_block_number, block_number,
                 file_block, sent,
                 skipped>>

GetRecvError ==
  /\ op = "get" /\ pc = "get_recv"
  /\ \E pkt \in GetInbox(remote), from \in PeerAddrs : GetError(pkt, from)

\* Any other opcode: neither branch is taken, the loop waits again.
GetOther(pkt, from) ==
  LET data == RecvFrom(pkt) IN
  /\ Opcode(data) # OP_DATA /\ Opcode(data) # OP_ERROR
  /\ server' = from
  /\ lastRecv' = Packet(from, data)
  /\ firstFrom' = Noted(from)
  /\ UNCHANGED <<op, pc, disk, remote, fileOpen, filePos, sockOpen,
                 expected_block_number, block_number, file_block, sent,
                 exitStatus, error, stdout,
                 skipped>>

GetRecvOther ==
  /\ op = "get" /\ pc = "get_recv"
  /\ \E pkt \in GetInbox(remote), from \in PeerAddrs : GetOther(pkt, from)

\* A timeout handler that sends the request again and goes on waiting.
GetTimeout_Retry ==
  /\ op = "get" /\ pc = "get_recv"
  /\ lastRecv' = TimedOut
  /\ stdout' = Append(stdout, "Timeout occurred. No response from server.")
  /\ sent' = Append(sent, [to |-> ServerAddress,
                           data |-> RrqMessage(Filename, DEFAULT_TRANSFER_MODE)])
  /\ UNCHANGED <<op, pc, disk, remote, fileOpen, filePos, sockOpen,
                 expected_block_number, block_number, file_block, server,
                 firstFrom, exitStatus, error,
                 skipped>>

\* except socket.timeout: print; file.close(); os.remove; sys.exit(1)
GetTimeout ==
  /\ op = "get" /\ pc = "get_recv"
  /\ lastRecv' = TimedOut
  /\ stdout' = Append(stdout, "Timeout occurred. No response from server.")
  /\ fileOpen' = FALSE
  /\ disk' = OsRemove(disk)
  /\ pc' = "exit" /\ exitStatus' = 1 /\ error' = "SystemExit"
  /\ UNCHANGED <<op, remote, filePos, sockOpen, expected_block_number,
                 block_number, file_block, server, sent, firstFrom,
                 skipped>>

\* ------------------------------------------------------- put_file
\* One pass from the top of the while loop to the receive wait, with the
\* block counter bn: file.read(BLOCK_SIZE), pack the DATA message numbered
\* bn + 1, sendto(server_address).
PutSendNext(bn, pos, out) ==
  LET blk == SubSeq(disk.bytes, pos + 1, Min(pos + BLOCK_SIZE, Len(disk.bytes))) IN
  /\ file_block' = blk
  /\ filePos' = pos + Len(blk)
  /\ block_number' = bn
  /\ stdout' = out
  /\ IF PackOk_h(bn + 1)
     THEN /\ sent' = Append(sent, [to |-> ServerAddress,
                                   data |-> DataMessage(bn + 1, blk)])
          /\ pc' = "put_recv"
          /\ UNCHANGED <<fileOpen, sockOpen, exitStatus, error>>
     ELSE \* pack raises struct.error: uncaught
          /\ pc' = "exit" /\ exitStatus' = 1 /\ error' = "struct.error"
          /\ UNCHANGED <<sent, fileOpen, sockOpen>>

\* The end of an iteration, after the reply or the timeout was handled:
\* a short file_block ends the loop, anything else starts the next pass.
PutLoopEnd(bn, out) ==
  IF IsLastBlock(file_block)
  THEN \* print; break; file.close(); return; sock.close()
       /\ stdout' = Append(out, "File transfer completed.")
       /\ block_number' = bn
       /\ fileOpen' = FALSE /\ sockOpen' = FALSE
       /\ pc' = "exit" /\ exitStatus' = 0 /\ error' = "none"
       /\ UNCHANGED <<file_block, filePos, sent>>
  ELSE PutSendNext(bn, filePos, out)

\* os.path.exists check, send_wrq, open(filename, 'rb'), block_number = 0,
\* then the first pass of the loop up to its receive wait.
PutStart ==
  /\ op = "put" /\ pc = "start"
  /\ IF LocalFileMissing
     THEN \* print; sys.exit(1)
          /\ stdout' = Append(stdout, "Error: File does not exist.")
          /\ pc' = "exit" /\ exitStatus' = 1 /\ error' = "SystemExit"
          /\ UNCHANGED <<sent, fileOpen, sockOpen, file_block, filePos, block_number>>
     ELSE LET blk == SubSeq(disk.bytes, 1, Min(BLOCK_SIZE, Len(disk.bytes))) IN
          /\ sent' = <<[to |-> ServerAddress,
                        data |-> WrqMessage(Filename, DEFAULT_TRANSFER_MODE)],
                       [to |-> ServerAddress, data |-> DataMessage(1, blk)]>>
          /\ fileOpen' = TRUE
          /\ block_number' = 0
          /\ file_block' = blk
          /\ filePos' = Len(blk)
          /\ pc' = "put_recv"
          /\ UNCHANGED <<sockOpen, exitStatus, error, stdout>>
  /\ UNCHANGED <<op, disk, remote, expected_block_number, server, lastRecv, firstFrom,
                 skipped>>

\* A reply arrives: the matching ACK advances block_number, anything else is
\* "unexpected"; then the end of the iteration.
PutReply(pkt, from) ==
  LET ack == RecvFrom(pkt)
      ack_opcode == Opcode(ack)
      ack_block_number == Field2(ack)
  IN
  /\ server' = from
  /\ lastRecv' = Packet(from, ack)
  /\ firstFrom' = Noted(from)
  /\ IF ack_opcode = OP_ACK /\ ack_block_number = block_number + 1
     THEN PutLoopEnd(block_number + 1, stdout)
     ELSE PutLoopEnd(block_number,
                     Append(stdout, "Unexpected ACK received. Resending..."))
  /\ UNCHANGED <<op, disk, remote, expected_block_number,
                 skipped>>

PutRecv ==
  /\ op = "put" /\ pc = "put_recv"
  /\ \E pkt \in PutInbox, from \in PeerAddrs : PutReply(pkt, from)

\* except socket.timeout: print; then the end of the iteration.
PutTimeout ==
  /\ op = "put" /\ pc = "put_recv"
  /\ lastRecv' = TimedOut
  /\ PutLoopEnd(block_number,
                Append(stdout, "Timeout occurred while waiting for ACK. Resending..."))
  /\ UNCHANGED <<op, disk, remote, expected_block_number, server, firstFrom,
                 skipped>>

\* ---------------------------------------------------- specification
Next ==
  \/ GetStart
  \/ GetRecvData
  \/ GetRecvError
  \/ GetRecvOther
  \/ GetTimeout
  \/ PutStart
  \/ PutRecv
  \/ PutTimeout

Spec == Init /\ [][Next]_vars

\* A long transfer, held from the wait in which block INT16_MAX is due: the
\* INT16_MAX - 1 blocks before it went by in lock step, each ACKed with its
\* number.  disk.bytes / remote hold the file from that block on, `sent`
\* what is sent from here on (in an upload: from DATA INT16_MAX on).
InitMid ==
  /\ op \in {"get", "put"}
  /\ skipped = INT16_MAX - 1
  /\ \E n \in FileSizes :
       \/ /\ op = "get"
          /\ pc = "get_recv"
          /\ remote = FileBytes(n)
          /\ disk = [exists |-> TRUE, bytes |-> <<>>]
          /\ expected_block_number = INT16_MAX
          /\ block_number = 0
          /\ file_block = <<>>
          /\ filePos = 0
          /\ sent = <<>>
          /\ lastRecv = Packet("tid1", PeerData(skipped, FileBytes(BLOCK_SIZE)))
       \/ /\ op = "put"
          /\ pc = "put_recv"
          /\ remote = <<>>
          /\ disk = [exists |-> TRUE, bytes |-> FileBytes(n)]
          /\ expected_block_number = 0
          /\ block_number = skipped
          /\ file_block = Chunk(disk.bytes, 1)
          /\ filePos = Len(file_block)
          /\ sent = <<[to |-> ServerAddress,
                       data |-> DataMessage(skipped + 1, file_block)]>>
          /\ lastRecv = Packet("tid1", PeerAck(skipped))
  /\ fileOpen = TRUE
  /\ sockOpen = TRUE
  /\ server = "tid1"
  /\ firstFrom = "tid1"
  /\ exitStatus = -1
  /\ error = "none"
  /\ stdout = <<>>

InitLong == Init \/ InitMid

\* The runs of Spec, and those of long transfers from block INT16_MAX on.
SpecLong == InitLong /\ [][Next]_vars

\* ------------------------------------------------------------ claims
IsOp(m, code) == Opcode(m.data) = code
AcksSent == SelectSeq(sent, LAMBDA m : IsOp(m, OP_ACK))
DataSent == SelectSeq(sent, LAMBDA m : IsOp(m, OP_DATA))
RequestsSent == SelectSeq(sent, LAMBDA m : IsOp(m, OP_RRQ) \/ IsOp(m, OP_WRQ))

\* The run ended through the success exit.
Completed ==
  /\ pc = "exit"
  /\ stdout # <<>>
  /\ stdout[Len(stdout)] = "File transfer completed."

\* The last receive wait delivered a packet with this opcode.
Received(code) == lastRecv.kind = "packet" /\ Opcode(lastRecv.data) = code

\* Download: every block of the source was written and ACKed.
GetFullyCompleted ==
  /\ disk.exists
  /\ disk.bytes = remote
  /\ Len(AcksSent) = NumBlocks(remote)

\* Upload: every block of the local file was ACKed by the peer.
PutFullyCompleted == block_number = NumBlocks(disk.bytes)

\* C1: whenever a download ends through the success exit, the local file
\* is byte-identical to the source, whatever DATA packets were delivered.
C1_DownloadIdentical ==
  (op = "get" /\ Completed) => (disk.exists /\ disk.bytes = remote)

\* C2: the process exits with status 0 only when the transfer fully
\* completed; every other outcome gives a non-zero exit status.
C2_NoPartialSuccess ==
  (pc = "exit" /\ exitStatus = 0) =>
     IF op = "get" THEN GetFullyCompleted ELSE PutFullyCompleted

\* C3: an upload reaches the success exit only after its final (short)
\* DATA block was sent and the ACK with that block's number was received.
C3_FinalBlockAcked ==
  (op = "put" /\ Completed) =>
     /\ DataSent # <<>>
     /\ Len(SliceFrom(DataSent[Len(DataSent)].data, 4)) < BLOCK_SIZE
     /\ Received(OP_ACK)
     /\ Field2(lastRecv.data) = Field2(DataSent[Len(DataSent)].data)

\* C4: an upload step sends a further DATA packet only when that step
\* received the ACK whose number is that of the DATA packet sent before.
C4_LockStep ==
  [][(op = "put" /\ pc = "put_recv" /\ Len(sent') > Len(sent)) =>
       /\ lastRecv'.kind = "packet"
       /\ Opcode(lastRecv'.data) = OP_ACK
       /\ Field2(lastRecv'.data) = Field2(sent[Len(sent)].data)]_vars

\* C5: in an upload that ends through the success exit, the i-th DATA
\* packet sent is numbered i and carries the i-th 512-byte chunk of the file.
C5_UploadSequence ==
  (op = "put" /\ Completed) =>
     \A i \in 1..Len(DataSent) :
        DataSent[i].data = PeerData(i, Chunk(disk.bytes, i))

\* C6: the ACKs a download sends carry, in send order, the block numbers
\* 1, 2, 3, ...: no gap, no repeat.
C6_AckSequence ==
  op = "get" =>
     \A i \in 1..Len(AcksSent) : AcksSent[i].data = PeerAck(i)

\* A download that has ACKed two blocks and has just been handed a DATA
\* packet with a number it did not expect (a duplicate).
C6_Witness ==
  /\ op = "get" /\ pc = "get_recv"
  /\ Len(AcksSent) = 2
  /\ Received(OP_DATA)
  /\ Field2(lastRecv.data) = 1

\* C7: a receive wait of a download that times out ends the process with
\* a non-zero exit status, the local file deleted and nothing sent again.
C7_TimeoutFatal ==
  (op = "get" /\ lastRecv.kind = "timeout") =>
     /\ pc = "exit"
     /\ exitStatus = 1
     /\ ~disk.exists
     /\ Len(RequestsSent) = 1
     /\ Len(sent) = expected_block_number

\* A download that timed out after it had written and ACKed a block.
C7_Witness ==
  /\ op = "get" /\ lastRecv.kind = "timeout"
  /\ expected_block_number = 2

\* C8: an ERROR packet with a defined code ends the download at once and
\* the local file is deleted.
C8_ErrorDeletesFile ==
  (op = "get" /\ Received(OP_ERROR) /\ Field2(lastRecv.data) \in 0..7) =>
     /\ pc = "exit"
     /\ ~disk.exists
     /\ ~fileOpen
     /\ Len(sent) = expected_block_number

\* A download that received ERROR 3 after it had written and ACKed a block.
C8_Witness ==
  /\ op = "get" /\ Received(OP_ERROR) /\ Field2(lastRecv.data) = 3
  /\ expected_block_number = 2

\* C9: an ERROR packet with an undefined code (above 7) ends the download
\* like a defined one: a message, the file closed and deleted, no
\* unhandled exception.
C9_UndefinedCodeHandled ==
  (op = "get" /\ Received(OP_ERROR) /\ Field2(lastRecv.data) > 7) =>
     /\ pc = "exit"
     /\ error # "KeyError"
     /\ ~disk.exists
     /\ ~fileOpen

\* C10: an upload of a file that does not exist locally sends no packet
\* and exits with a non-zero status.
C10_MissingFileSendsNothing ==
  (op = "put" /\ ~disk.exists) =>
     /\ sent = <<>>
     /\ pc = "exit" => exitStatus # 0

\* An upload of a missing file, after it ended.
C10_Witness == op = "put" /\ ~disk.exists /\ pc = "exit"

\* ------------------------------------------------- claims C11 .. C20
\* The number of packets in `sent` that were sent before the first receive
\* wait: the RRQ, or the WRQ and DATA 1 (none in a run held from block
\* INT16_MAX on).
SentBeforeReply ==
  IF skipped > 0 THEN 0 ELSE IF op = "put" THEN 2 ELSE 1

\* C11: every packet sent after the first reply of the session was received
\* is addressed to the source address of that first reply.
C11_PeerAddressAdopted ==
  firstFrom # "nobody" =>
     \A i \in 1..Len(sent) :
        i > SentBeforeReply => sent[i].to = firstFrom

\* C12: block counters and the block-number fields of ACK and DATA packets
\* go up to 65535 and wrap to 0; a transfer of more than 32767 blocks goes
\* on with correctly numbered packets and does not fail.
C12_BlockNumbersWrap ==
  /\ error # "struct.error"
  /\ expected_block_number <= 65535
  /\ block_number <= 65535
  /\ \A i \in 1..Len(AcksSent) : AcksSent[i].data = PeerAck((skipped + i) % 65536)

\* C13: on every exit path the file handle and the socket have been closed.
C13_ClosedOnEveryExit == pc = "exit" => (~fileOpen /\ ~sockOpen)

\* C14: an ERROR packet received during an upload ends it at once: no
\* further DATA packet is sent and completion is not reported.
C14_UploadErrorFatal ==
  (op = "put" /\ Received(OP_ERROR)) => (pc = "exit" /\ ~Completed)

\* A received packet of no known shape: no opcode, an opcode outside 1..5,
\* or a DATA / ACK / ERROR packet shorter than its 4-byte header.
Malformed(data) ==
  \/ Len(data) < 2
  \/ Opcode(data) \notin OP_RRQ..OP_ERROR
  \/ Opcode(data) \in {OP_DATA, OP_ACK, OP_ERROR} /\ Len(data) < 4

\* C15: a received packet of no known shape is fatal: the transfer loop does
\* not go on after it, and no completion is reported.
C15_MalformedFatal ==
  (lastRecv.kind = "packet" /\ Malformed(lastRecv.data)) =>
     (pc = "exit" /\ ~Completed)

\* C16: a DATA packet received by a download ends it through the success
\* exit if its payload is shorter than 512 bytes, and does not end the loop
\* otherwise, whatever its block number.
C16_ShortBlockEnds ==
  (op = "get" /\ Received(OP_DATA)) =>
     IF Len(SliceFrom(lastRecv.data, 4)) < BLOCK_SIZE
     THEN Completed
     ELSE pc = "get_recv"

\* Every reply of the upload so far was the ACK of the DATA packet just sent.
AllAcked ==
  block_number - skipped = Len(DataSent) - (IF pc = "put_recv" THEN 1 ELSE 0)

\* C17: an upload of a file of k * 512 bytes whose every DATA packet is
\* ACKed with its number sends DATA 1..k+1, in order, the i-th with the i-th
\* chunk, the last one empty, each after the ACK of the one before; when it
\* ends, all k + 1 were sent.
C17_MultipleOfBlockSize ==
  (op = "put" /\ disk.exists /\ Len(disk.bytes) % BLOCK_SIZE = 0 /\ AllAcked) =>
     /\ \A i \in 1..Len(DataSent) :
          DataSent[i].data = PeerData(skipped + i, Chunk(disk.bytes, i))
     /\ Len(DataSent) <= NumBlocks(disk.bytes)
     /\ (block_number > skipped) =>
          (Received(OP_ACK) /\ Field2(lastRecv.data) = block_number)
     /\ pc = "exit" =>
          /\ Len(DataSent) = NumBlocks(disk.bytes)
          /\ SliceFrom(DataSent[Len(DataSent)].data, 4) = <<>>

\* C18: a DATA packet whose block number is not the expected one makes a
\* download send nothing, write nothing and keep its expected block number.
C18_MismatchChangesNothing ==
  [][(/\ op = "get" /\ pc = "get_recv"
      /\ lastRecv'.kind = "packet"
      /\ Opcode(lastRecv'.data) = OP_DATA
      /\ Field2(lastRecv'.data) # expected_block_number) =>
       /\ sent' = sent
       /\ disk' = disk
       /\ expected_block_number' = expected_block_number]_vars

\* A download that wrote and ACKed two blocks and was then handed block 1
\* again, and waits on.
C18_Witness ==
  /\ op = "get" /\ pc = "get_recv"
  /\ expected_block_number = 3
  /\ Len(disk.bytes) = 2 * BLOCK_SIZE
  /\ Received(OP_DATA)
  /\ Field2(lastRecv.data) = 1
  /\ Len(sent) = 3

\* C19: an upload of a file of n bytes sends exactly floor(n / 512) + 1 DATA
\* packets, one per pass of the loop, whatever the replies are, and then ends.
C19_UploadPasses ==
  (op = "put" /\ disk.exists) =>
     /\ Len(DataSent) <= NumBlocks(disk.bytes)
     /\ filePos = Min(Len(DataSent) * BLOCK_SIZE, Len(disk.bytes))
     /\ pc = "exit" => Len(DataSent) = NumBlocks(disk.bytes)

\* C20: a download leaves its loop only on a DATA packet with a payload
\* shorter than 512 bytes, on an ERROR packet or on a timeout; no other
\* packet ends the session.
C20_GetExits ==
  (op = "get" /\ pc = "exit") =>
     \/ lastRecv.kind = "timeout"
     \/ Received(OP_ERROR)
     \/ Received(OP_DATA) /\ Len(SliceFrom(lastRecv.data, 4)) < BLOCK_SIZE

====
